---- MODULE Spec2Model ----
(***************************************************************************)
(* Model of pyenvertechevt800: the EnvertechEVT800 connection manager      *)
(* (start / stop / _run / _main_loop) and the packet helpers it calls.     *)
(*                                                                         *)
(* The background task is an asyncio coroutine: between two awaits its     *)
(* code runs without interleaving, so every action below is the resumption *)
(* of one await (with one of its outcomes) followed by all the code up to  *)
(* the next await or to the end of the task.                               *)
(*                                                                         *)
(* Bytes are integers 0..255, byte strings are sequences of bytes, Python  *)
(* indices are 0-based (data[i] is At(data, i)), str values are sequences  *)
(* of one-character strings, dicts are functions (the empty dict is the    *)
(* function with the empty domain).  Telemetry values, which the code      *)
(* computes as x * k / 32768, are kept as their exact numerator x * k over *)
(* the common denominator 32768.                                           *)
(***************************************************************************)
EXTENDS Integers, Sequences, FiniteSets

(* ------------------------------ bounds --------------------------------- *)

\* longest payload, between the start marker and the end marker, of the
\* frames given directly to the frame extraction
MaxPayload == 2

\* largest power / AC voltage raw value given directly to safe_divide and
\* put into the telemetry frames given directly to parse_data_packet
MaxOperand == 2

\* number of times start() is called in a behaviour (tasks ever created)
MaxTasks == 2

\* number of streams the process can hold open at once (descriptor limit);
\* asyncio.open_connection raises OSError beyond it
MaxStreams == 2

\* longest run of noise bytes put in front of a frame in a read buffer
MaxNoise == 1

(* ------------------------- packet helpers ------------------------------ *)

At(data, i) == data[i + 1]

\* Python data[a:b] for 0 <= a <= b <= len(data)
Slice(data, a, b) == SubSeq(data, a + 1, b)

Min(S) == CHOOSE x \in S : \A y \in S : x <= y

\* buffer.find(b"\x68\x00")
FindStart(buffer) ==
  LET hits == {i \in 0..(Len(buffer) - 2) : At(buffer, i) = 104 /\ At(buffer, i + 1) = 0}
  IN  IF hits = {} THEN -1 ELSE Min(hits)

\* buffer.find(b"\x16", start)
FindEnd(buffer, start) ==
  LET hits == {i \in start..(Len(buffer) - 1) : At(buffer, i) = 22}
  IN  IF hits = {} THEN -1 ELSE Min(hits)

\* the value standing for "no packet in this buffer" (both `continue`s);
\* an extracted packet always has at least 3 bytes
NoPacket == <<>>

\* the slice stops before the end marker: buffer[start:end]
ExtractPacket_WithoutEnd(buffer) ==
  LET start == FindStart(buffer) IN
  IF start = -1 THEN NoPacket
  ELSE LET end == FindEnd(buffer, start) IN
       IF end = -1 THEN NoPacket
       ELSE Slice(buffer, start, end)

ExtractPacket(buffer) ==
  LET start == FindStart(buffer) IN
  IF start = -1 THEN NoPacket
  ELSE LET end == FindEnd(buffer, start) IN
       IF end = -1 THEN NoPacket
       ELSE Slice(buffer, start, end + 1)

HexDigits == <<"0", "1", "2", "3", "4", "5", "6", "7", "8", "9", "a", "b", "c", "d", "e", "f">>

\* bytes.hex(): two lower-case hex digits per byte
HexOf(data) ==
  [i \in 1..(2 * Len(data)) |->
     LET b == data[(i + 1) \div 2] IN
     IF i % 2 = 1 THEN HexDigits[(b \div 16) + 1] ELSE HexDigits[(b % 16) + 1]]

EmptyStr == <<>>

\* the serial taken one byte early: data.hex()[10:18]
parse_poll_message_packet_Shifted(data) ==
  IF Len(data) # 32 THEN EmptyStr ELSE SubSeq(HexOf(data), 11, 18)

parse_poll_message_packet(data) ==
  IF Len(data) # 32 THEN EmptyStr ELSE SubSeq(HexOf(data), 13, 20)

bytes_to_u16(b1, b2) == b1 * 256 + b2

bytes_to_u32(b1, b2, b3, b4) == b1 * 16777216 + b2 * 65536 + b3 * 256 + b4

\* absent operand (Python None); the operands that are present are >= 0
None == -1

\* a quotient is the pair <<numerator, denominator>>; the result 0 is <<0, 1>>
Zero == <<0, 1>>

\* what stands for a raised ZeroDivisionError
Fault == <<0, 0>>

\* Python numerator / denominator
Quotient(numerator, denominator) ==
  IF denominator = 0 THEN Fault ELSE <<numerator, denominator>>

\* the guard dropped: only the absent operands are tested, nothing is caught
safe_divide_Unguarded(numerator, denominator) ==
  IF numerator = None \/ denominator = None THEN Zero
  ELSE Quotient(numerator, denominator)

safe_divide(numerator, denominator) ==
  IF numerator = None \/ denominator = None THEN Zero
  ELSE IF denominator = 0 THEN Zero
  ELSE LET q == Quotient(numerator, denominator)
       IN  IF q = Fault THEN Zero ELSE q

EmptyDict == [k \in {} |-> 0]

\* the length guard off by one: `if len(data) <= 86`
parse_data_packet_Le(data) ==
  IF Len(data) <= 86 THEN EmptyDict ELSE [id_1 |-> 0]

parse_data_packet(data) ==
  IF Len(data) < 86 THEN EmptyDict
  ELSE LET power_1 == bytes_to_u16(At(data, 28), At(data, 29)) * 512
           power_2 == bytes_to_u16(At(data, 60), At(data, 61)) * 512
           ac_voltage_1 == bytes_to_u16(At(data, 36), At(data, 37)) * 512
           ac_voltage_2 == bytes_to_u16(At(data, 68), At(data, 69)) * 512
       IN [id_1 |-> At(data, 20) * 1000000 + At(data, 21) * 10000 + At(data, 22) * 100 + At(data, 23),
           id_2 |-> At(data, 52) * 1000000 + At(data, 53) * 10000 + At(data, 54) * 100 + At(data, 55),
           sw_version |-> <<At(data, 24), At(data, 25)>>,
           input_voltage_1 |-> bytes_to_u16(At(data, 26), At(data, 27)) * 64,
           input_voltage_2 |-> bytes_to_u16(At(data, 58), At(data, 59)) * 64,
           power_1 |-> power_1,
           power_2 |-> power_2,
           ac_voltage_1 |-> ac_voltage_1,
           ac_voltage_2 |-> ac_voltage_2,
           ac_frequency_1 |-> bytes_to_u16(At(data, 38), At(data, 39)) * 128,
           ac_frequency_2 |-> bytes_to_u16(At(data, 70), At(data, 71)) * 128,
           temperature_1 |-> bytes_to_u16(At(data, 34), At(data, 35)) * 256 - 40 * 32768,
           temperature_2 |-> bytes_to_u16(At(data, 66), At(data, 67)) * 256 - 40 * 32768,
           total_energy_1 |-> bytes_to_u32(At(data, 30), At(data, 31), At(data, 32), At(data, 33)) * 4,
           total_energy_2 |-> bytes_to_u32(At(data, 62), At(data, 63), At(data, 64), At(data, 65)) * 4,
           current_1 |-> safe_divide(power_1, ac_voltage_1),
           current_2 |-> safe_divide(power_2, ac_voltage_2)]

\* the serial bytes taken one byte early: packet[19:23]
AckFor_Shifted(packet) ==
  <<104, 0, 16, 104, 16, 80>> \o Slice(packet, 19, 23) \o <<0, 0, 0, 0, 120, 22>>

\* the acknowledgment built for a packet of at least 24 bytes
AckFor(packet) ==
  <<104, 0, 16, 104, 16, 80>> \o Slice(packet, 20, 24) \o <<0, 0, 0, 0, 120, 22>>

NoAck == <<>>

(* ---------------------------- read inputs ------------------------------ *)

\* the telemetry frame of the test suite (86 bytes)
DataPacket ==
  <<104, 0, 86, 104, 16, 4, 49, 82, 88, 32, 122, 0, 122, 1, 0, 0, 0, 0, 0, 0,
    49, 82, 88, 32, 122, 122, 64, 176, 45, 134, 0, 0, 186, 251, 46, 140, 60, 73, 49, 254,
    0, 0, 0, 0, 0, 0, 0, 0, 0, 0, 0, 0, 49, 82, 88, 33, 122, 122, 49, 49,
    1, 123, 0, 0, 14, 74, 42, 179, 60, 73, 49, 254, 2, 2, 0, 0, 0, 0, 0, 0,
    0, 0, 0, 0, 239, 22>>

\* the poll frame of the test suite (32 bytes, serial 31525820)
PollPacket ==
  <<104, 0, 32, 104, 16, 6, 49, 82, 88, 32, 0, 0, 0, 0, 0, 1,
    75, 0, 0, 231, 1, 0, 0, 1, 5, 0, 0, 0, 0, 0, 144, 22>>

\* a frame of n >= 3 bytes: start marker, payload bytes i mod 7 + 1, end marker
Frame(n) ==
  [i \in 1..n |-> IF i = 1 THEN 104 ELSE IF i = 2 THEN 0 ELSE IF i = n THEN 22 ELSE (i % 7) + 1]

\* a poll frame of another device: bytes 6..9 are a0 b1 c2 d3
PollPacket2 ==
  [i \in 1..32 |-> IF i = 7 THEN 160 ELSE IF i = 8 THEN 177 ELSE IF i = 9 THEN 194
                   ELSE IF i = 10 THEN 211 ELSE PollPacket[i]]

\* a telemetry frame whose payload holds the end-marker value at offset 40
TruncatedDataPacket == [i \in 1..86 |-> IF i = 41 THEN 22 ELSE DataPacket[i]]

Noise(n) == [i \in 1..n |-> 170]

FrameLengths == {23, 24, 33, 85}

\* what one reader.read(86) can return when it returns data: at most 86 bytes
ReadBuffers ==
  {DataPacket, PollPacket, PollPacket2, TruncatedDataPacket}
    \cup {Frame(n) : n \in FrameLengths}
    \cup {Noise(k) \o PollPacket \o Noise(k) : k \in 1..MaxNoise}
    \cup {Noise(k) : k \in 1..MaxNoise}
    \cup {Noise(k) \o <<104, 0, 1, 2>> : k \in 0..MaxNoise}

\* lines 71-77 applied to each buffer a read can return, evaluated once
Extracted == [b \in ReadBuffers |-> ExtractPacket(b)]

(* ------------------------------ state ---------------------------------- *)

VARIABLES
  pc,                  \* per task: where the coroutine is suspended
  stream,              \* per task: its session holds an open stream
  leaked,              \* streams of ended sessions that are still open
  online,              \* self.online
  unavailable_logged,  \* self._unavailable_logged
  stop_event,          \* self._stop_event
  serial_number,       \* self.serial_number
  task,                \* self._task (0 is None)
  created,             \* number of tasks created so far
  stopState,           \* the stop() call: idle, waiting, returned, raised
  stopTarget,          \* the task a waiting stop() awaits
  ev,                  \* the last step taken (of those that change the state) and what it did
  disciplined,         \* start() was never called with a task running
  warnedSinceConnect,  \* a warning was logged since the last successful connect
  warnedSinceStart,    \* ... since the last successful connect or start()
  cin,                 \* the argument of a direct call of a packet helper
  cout                 \* the result of that call

vars == <<pc, stream, leaked, online, unavailable_logged, stop_event, serial_number,
          task, created, stopState, stopTarget, ev, disciplined,
          warnedSinceConnect, warnedSinceStart, cin, cout>>

Tasks == 1..MaxTasks

NoTask == 0

Live == {"created", "connecting", "reading", "draining", "sleeping"}

Exited == {"done", "failed"}

InSession == {"reading", "draining"}

Event(t, kind, frame, listener, ack, warned, recovered) ==
  [task |-> t, kind |-> kind, frame |-> frame,
   listener |-> listener, ack |-> ack, warned |-> warned, recovered |-> recovered]

Plain(t, kind) == Event(t, kind, NoPacket, "none", NoAck, FALSE, FALSE)

OpenStreams == leaked + Cardinality({t \in Tasks : stream[t]})

\* no helper is being called directly
NoCall == [op |-> "none"]

Pending == [done |-> FALSE, value |-> <<>>]

\* the manager after __init__
ManagerInit ==
  /\ pc = [t \in Tasks |-> "none"]
  /\ stream = [t \in Tasks |-> FALSE]
  /\ leaked = 0
  /\ online = FALSE
  /\ unavailable_logged = FALSE
  /\ stop_event = FALSE
  /\ serial_number = EmptyStr
  /\ task = NoTask
  /\ created = 0
  /\ stopState = "idle"
  /\ stopTarget = NoTask
  /\ ev = [task |-> NoTask, kind |-> "init", frame |-> NoPacket,
           listener |-> "none", ack |-> NoAck, warned |-> FALSE, recovered |-> FALSE]
  /\ disciplined = TRUE
  /\ warnedSinceConnect = FALSE
  /\ warnedSinceStart = FALSE

Init ==
  /\ ManagerInit
  /\ cin = NoCall
  /\ cout = Pending

(* ------------------------- start() and stop() -------------------------- *)

\* start(): clear the stop signal, create the task (it first runs later)
Start ==
  /\ created < MaxTasks
  /\ stop_event' = FALSE
  /\ created' = created + 1
  /\ task' = created + 1
  /\ pc' = [pc EXCEPT ![created + 1] = "created"]
  /\ disciplined' = (disciplined /\ stopState # "waiting" /\ \A t \in Tasks : pc[t] \notin Live)
  /\ warnedSinceStart' = FALSE
  /\ ev' = Plain(created + 1, "start")
  /\ UNCHANGED <<stream, leaked, online, unavailable_logged, serial_number,
                 stopState, stopTarget, warnedSinceConnect>>
  /\ UNCHANGED <<cin, cout>>

\* stop() without `await self._task`: it returns as soon as the signal is set
StopCall_NoAwait ==
  /\ stopState # "waiting"
  /\ stop_event' = TRUE
  /\ stopTarget' = task
  /\ stopState' = "returned"
  /\ ev' = Plain(task, "stop_call")
  /\ UNCHANGED <<pc, stream, leaked, online, unavailable_logged, serial_number,
                 task, created, disciplined, warnedSinceConnect, warnedSinceStart>>
  /\ UNCHANGED <<cin, cout>>

\* stop() up to its await: set the stop signal; with no task, or a task that
\* has already finished, `await self._task` does not suspend
StopCall ==
  /\ stopState # "waiting"
  /\ stop_event' = TRUE
  /\ IF task = NoTask
       THEN stopState' = "returned" /\ stopTarget' = NoTask
       ELSE /\ stopTarget' = task
            /\ stopState' = IF pc[task] = "done" THEN "returned"
                            ELSE IF pc[task] = "failed" THEN "raised"
                            ELSE "waiting"
  /\ ev' = Plain(task, "stop_call")
  /\ UNCHANGED <<pc, stream, leaked, online, unavailable_logged, serial_number,
                 task, created, disciplined, warnedSinceConnect, warnedSinceStart>>
  /\ UNCHANGED <<cin, cout>>

\* stop() resumed: the awaited task has finished; its exception, if any, is
\* raised out of stop()
StopReturn ==
  /\ stopState = "waiting"
  /\ pc[stopTarget] \in Exited
  /\ stopState' = IF pc[stopTarget] = "failed" THEN "raised" ELSE "returned"
  /\ ev' = Plain(stopTarget, "stop_return")
  /\ UNCHANGED <<pc, stream, leaked, online, unavailable_logged, stop_event, serial_number,
                 task, created, stopTarget, disciplined, warnedSinceConnect, warnedSinceStart>>
  /\ UNCHANGED <<cin, cout>>

(* ------------------------------- _run ---------------------------------- *)

\* the except clause with an unconditional `await asyncio.sleep(60)`
AfterExcept_AlwaysSleep == "sleeping"

\* where _run goes once its except clause has run: sleep unless stopped,
\* and with the stop signal set the `while` ends the task
AfterExcept == IF stop_event THEN "done" ELSE "sleeping"

\* where _run goes from the top of its `while`: a new _main_loop call
\* (suspended in open_connection) unless stopped
RunLoop == IF stop_event THEN "done" ELSE "connecting"

\* a session ends without anything closing its stream
LeakStream(t) ==
  /\ stream' = [stream EXCEPT ![t] = FALSE]
  /\ leaked' = leaked + (IF stream[t] THEN 1 ELSE 0)

\* the transport closed itself on a connection error
CloseStream(t) ==
  /\ stream' = [stream EXCEPT ![t] = FALSE]
  /\ leaked' = leaked

\* the except clause without `self._unavailable_logged = True`
Except_FlagNotSet(t, kind, frame, listener) ==
  /\ online' = FALSE
  /\ unavailable_logged' = unavailable_logged
  /\ pc' = [pc EXCEPT ![t] = AfterExcept]
  /\ warnedSinceConnect' = (warnedSinceConnect \/ ~unavailable_logged)
  /\ warnedSinceStart' = (warnedSinceStart \/ ~unavailable_logged)
  /\ ev' = Event(t, kind, frame, listener, NoAck, ~unavailable_logged, FALSE)

\* the except clause of _run: mark offline, warn once, then AfterExcept
Except(t, kind, frame, listener) ==
  /\ online' = FALSE
  /\ unavailable_logged' = TRUE
  /\ pc' = [pc EXCEPT ![t] = AfterExcept]
  /\ warnedSinceConnect' = (warnedSinceConnect \/ ~unavailable_logged)
  /\ warnedSinceStart' = (warnedSinceStart \/ ~unavailable_logged)
  /\ ev' = Event(t, kind, frame, listener, NoAck, ~unavailable_logged, FALSE)

\* the first run of the task created by start()
TaskFirstRun(t) ==
  /\ pc[t] = "created"
  /\ pc' = [pc EXCEPT ![t] = RunLoop]
  /\ ev' = Plain(t, "first_run")
  /\ UNCHANGED <<stream, leaked, online, unavailable_logged, stop_event, serial_number,
                 task, created, stopState, stopTarget, disciplined,
                 warnedSinceConnect, warnedSinceStart>>
  /\ UNCHANGED <<cin, cout>>

\* asyncio.sleep(60) is over
SleepDone(t) ==
  /\ pc[t] = "sleeping"
  /\ pc' = [pc EXCEPT ![t] = RunLoop]
  /\ ev' = Plain(t, "sleep_done")
  /\ UNCHANGED <<stream, leaked, online, unavailable_logged, stop_event, serial_number,
                 task, created, stopState, stopTarget, disciplined,
                 warnedSinceConnect, warnedSinceStart>>
  /\ UNCHANGED <<cin, cout>>

(* ---------------------------- _main_loop ------------------------------- *)

\* open_connection succeeded: online, recovery logged if the flag was set;
\* with the stop signal already set the read loop is not entered
ConnectOk(t) ==
  /\ pc[t] = "connecting"
  /\ OpenStreams < MaxStreams
  /\ unavailable_logged' = FALSE
  /\ warnedSinceConnect' = FALSE
  /\ warnedSinceStart' = FALSE
  /\ ev' = Event(t, "connect_ok", NoPacket, "none", NoAck, FALSE, unavailable_logged)
  /\ IF stop_event
       THEN /\ online' = FALSE
            /\ pc' = [pc EXCEPT ![t] = "done"]
            /\ leaked' = leaked + 1
            /\ stream' = stream
       ELSE /\ online' = TRUE
            /\ pc' = [pc EXCEPT ![t] = "reading"]
            /\ stream' = [stream EXCEPT ![t] = TRUE]
            /\ leaked' = leaked
  /\ UNCHANGED <<stop_event, serial_number, task, created, stopState, stopTarget, disciplined>>
  /\ UNCHANGED <<cin, cout>>

\* open_connection raised OSError (refused, unreachable, timed out, no descriptor left)
ConnectFail(t) ==
  /\ pc[t] = "connecting"
  /\ Except(t, "connect_fail", NoPacket, "none")
  /\ UNCHANGED <<stream, leaked, stop_event, serial_number, task, created,
                 stopState, stopTarget, disciplined>>
  /\ UNCHANGED <<cin, cout>>

\* the loop body ending in `break` instead of falling through or `continue`:
\* the session ends, offline, and _run calls _main_loop again
SessionNext_Break(t) ==
  /\ online' = FALSE
  /\ pc' = [pc EXCEPT ![t] = RunLoop]
  /\ LeakStream(t)

\* the bottom of the read loop's body, or a `continue`: next read unless
\* stopped; when stopped _main_loop marks offline and returns and _run ends
SessionNext(t) ==
  IF stop_event
    THEN /\ online' = FALSE
         /\ pc' = [pc EXCEPT ![t] = "done"]
         /\ LeakStream(t)
    ELSE /\ online' = online
         /\ pc' = [pc EXCEPT ![t] = "reading"]
         /\ UNCHANGED <<stream, leaked>>

\* the outcomes of self.on_data(data): returns, raises an exception that
\* _run does not catch, raises OSError or asyncio.TimeoutError
ListenerOutcomes == {"ok", "raise", "raise_os"}

\* the loop body with the acknowledgment written before self.on_data(data):
\* a frame of 24 bytes or more is acknowledged whatever the listener does
ReadData_AckFirst(t, buffer, lo) ==
  /\ pc[t] = "reading"
  /\ LET packet == Extracted[buffer]
         data == IF Len(packet) = 86 THEN parse_data_packet(packet) ELSE EmptyDict
         called == packet # NoPacket /\ DOMAIN data # {}
         serial == IF packet # NoPacket /\ Len(packet) # 86 /\ Len(packet) = 32
                     THEN parse_poll_message_packet(packet) ELSE serial_number
         ack == IF packet # NoPacket /\ Len(packet) >= 24 THEN AckFor(packet) ELSE NoAck
     IN /\ lo \in (IF called THEN ListenerOutcomes ELSE {"none"})
        /\ serial_number' = serial
        /\ IF packet = NoPacket
             THEN /\ SessionNext(t)
                  /\ ev' = Event(t, "read", NoPacket, "none", NoAck, FALSE, FALSE)
                  /\ UNCHANGED <<unavailable_logged, warnedSinceConnect, warnedSinceStart>>
           ELSE IF lo = "raise"
             THEN /\ pc' = [pc EXCEPT ![t] = "failed"]
                  /\ LeakStream(t)
                  /\ ev' = Event(t, "read", packet, lo, ack, FALSE, FALSE)
                  /\ UNCHANGED <<online, unavailable_logged, warnedSinceConnect, warnedSinceStart>>
           ELSE IF lo = "raise_os"
             THEN /\ Except(t, "read", packet, lo)
                  /\ LeakStream(t)
           ELSE IF Len(packet) >= 24
             THEN /\ pc' = [pc EXCEPT ![t] = "draining"]
                  /\ ev' = Event(t, "read", packet, lo, ack, FALSE, FALSE)
                  /\ UNCHANGED <<stream, leaked, online, unavailable_logged,
                                 warnedSinceConnect, warnedSinceStart>>
           ELSE /\ SessionNext(t)
                /\ ev' = Event(t, "read", packet, lo, NoAck, FALSE, FALSE)
                /\ UNCHANGED <<unavailable_logged, warnedSinceConnect, warnedSinceStart>>
  /\ UNCHANGED <<stop_event, task, created, stopState, stopTarget, disciplined>>
  /\ UNCHANGED <<cin, cout>>

\* reader.read(86) returned a non-empty buffer
ReadData(t, buffer, lo) ==
  /\ pc[t] = "reading"
  /\ LET packet == Extracted[buffer]
         data == IF Len(packet) = 86 THEN parse_data_packet(packet) ELSE EmptyDict
         called == packet # NoPacket /\ DOMAIN data # {}
         serial == IF packet # NoPacket /\ Len(packet) # 86 /\ Len(packet) = 32
                     THEN parse_poll_message_packet(packet) ELSE serial_number
     IN /\ lo \in (IF called THEN ListenerOutcomes ELSE {"none"})
        /\ serial_number' = serial
        /\ IF packet = NoPacket
             THEN /\ SessionNext(t)
                  /\ ev' = Event(t, "read", NoPacket, "none", NoAck, FALSE, FALSE)
                  /\ UNCHANGED <<unavailable_logged, warnedSinceConnect, warnedSinceStart>>
           ELSE IF lo = "raise"
             THEN /\ pc' = [pc EXCEPT ![t] = "failed"]
                  /\ LeakStream(t)
                  /\ ev' = Event(t, "read", packet, lo, NoAck, FALSE, FALSE)
                  /\ UNCHANGED <<online, unavailable_logged, warnedSinceConnect, warnedSinceStart>>
           ELSE IF lo = "raise_os"
             THEN /\ Except(t, "read", packet, lo)
                  /\ LeakStream(t)
           ELSE IF Len(packet) >= 24
             THEN /\ pc' = [pc EXCEPT ![t] = "draining"]
                  /\ ev' = Event(t, "read", packet, lo, AckFor(packet), FALSE, FALSE)
                  /\ UNCHANGED <<stream, leaked, online, unavailable_logged,
                                 warnedSinceConnect, warnedSinceStart>>
           ELSE /\ SessionNext(t)
                /\ ev' = Event(t, "read", packet, lo, NoAck, FALSE, FALSE)
                /\ UNCHANGED <<unavailable_logged, warnedSinceConnect, warnedSinceStart>>
  /\ UNCHANGED <<stop_event, task, created, stopState, stopTarget, disciplined>>
  /\ UNCHANGED <<cin, cout>>

\* reader.read(86) returned b"": the peer closed; break, offline, return,
\* and _run calls _main_loop again at once unless stopped
ReadEmpty(t) ==
  /\ pc[t] = "reading"
  /\ online' = FALSE
  /\ pc' = [pc EXCEPT ![t] = RunLoop]
  /\ LeakStream(t)
  /\ ev' = Plain(t, "read_empty")
  /\ UNCHANGED <<unavailable_logged, stop_event, serial_number, task, created,
                 stopState, stopTarget, disciplined, warnedSinceConnect, warnedSinceStart>>
  /\ UNCHANGED <<cin, cout>>

\* wait_for(..., timeout=60) raised asyncio.TimeoutError
ReadTimeout(t) ==
  /\ pc[t] = "reading"
  /\ Except(t, "read_timeout", NoPacket, "none")
  /\ LeakStream(t)
  /\ UNCHANGED <<stop_event, serial_number, task, created, stopState, stopTarget, disciplined>>
  /\ UNCHANGED <<cin, cout>>

\* reader.read(86) raised OSError (connection reset)
ReadOSError(t) ==
  /\ pc[t] = "reading"
  /\ Except(t, "read_oserror", NoPacket, "none")
  /\ CloseStream(t)
  /\ UNCHANGED <<stop_event, serial_number, task, created, stopState, stopTarget, disciplined>>
  /\ UNCHANGED <<cin, cout>>

\* writer.drain() returned
DrainOk(t) ==
  /\ pc[t] = "draining"
  /\ SessionNext(t)
  /\ ev' = Plain(t, "drain_ok")
  /\ UNCHANGED <<unavailable_logged, stop_event, serial_number, task, created,
                 stopState, stopTarget, disciplined, warnedSinceConnect, warnedSinceStart>>
  /\ UNCHANGED <<cin, cout>>

\* writer.drain() raised OSError (connection lost)
DrainFail(t) ==
  /\ pc[t] = "draining"
  /\ Except(t, "drain_fail", NoPacket, "none")
  /\ CloseStream(t)
  /\ UNCHANGED <<stop_event, serial_number, task, created, stopState, stopTarget, disciplined>>
  /\ UNCHANGED <<cin, cout>>

(* --------------------------- specification ----------------------------- *)

Next ==
  \/ Start
  \/ StopCall
  \/ StopReturn
  \/ \E t \in Tasks : TaskFirstRun(t)
  \/ \E t \in Tasks : SleepDone(t)
  \/ \E t \in Tasks : ConnectOk(t)
  \/ \E t \in Tasks : ConnectFail(t)
  \/ \E t \in Tasks, buffer \in ReadBuffers, lo \in ListenerOutcomes \cup {"none"} : ReadData(t, buffer, lo)
  \/ \E t \in Tasks : ReadEmpty(t)
  \/ \E t \in Tasks : ReadTimeout(t)
  \/ \E t \in Tasks : ReadOSError(t)
  \/ \E t \in Tasks : DrainOk(t)
  \/ \E t \in Tasks : DrainFail(t)

Spec == Init /\ [][Next]_vars

TypeOK ==
  /\ pc \in [Tasks -> {"none"} \cup Live \cup Exited]
  /\ stream \in [Tasks -> BOOLEAN]
  /\ leaked \in 0..MaxStreams
  /\ online \in BOOLEAN
  /\ unavailable_logged \in BOOLEAN
  /\ stop_event \in BOOLEAN
  /\ task \in 0..MaxTasks
  /\ created \in 0..MaxTasks
  /\ stopState \in {"idle", "waiting", "returned", "raised"}

(* ------------------- direct calls of the helpers ----------------------- *)

SeqsUpTo(S, n) == UNION {[1..k -> S] : k \in 0..n}

\* noise around a frame: a filler byte and the bytes of the two markers
NoiseBytes == {170, 104, 0, 22}

\* payload bytes: a filler byte and the end-marker value
PayloadBytes == {1, 22}

CodecFrames ==
  {<<104, 0>> \o p \o <<22>> : p \in SeqsUpTo(PayloadBytes, MaxPayload)} \cup {PollPacket}

\* buffers made of noise, one frame, noise (at most 86 bytes)
ExtractCalls ==
  {[op |-> "extract", pre |-> pre, frame |-> f, post |-> post, buffer |-> pre \o f \o post] :
     pre \in SeqsUpTo(NoiseBytes, MaxNoise + 1), f \in CodecFrames,
     post \in SeqsUpTo(NoiseBytes, MaxNoise)}

Operands == {None} \cup (0..MaxOperand)

DivideCalls ==
  {[op |-> "divide", numerator |-> n, denominator |-> d] : n \in Operands, d \in Operands}

\* the test telemetry frame with the raw power and AC voltage of both channels replaced
WithPowerVoltage(p, v) ==
  [i \in 1..86 |-> IF i \in {29, 61, 37, 69} THEN 0
                   ELSE IF i \in {30, 62} THEN p
                   ELSE IF i \in {38, 70} THEN v
                   ELSE DataPacket[i]]

ParseLengths == {0, 10, 32, 85}

ParseCalls ==
  {[op |-> "parse", data |-> d] :
     d \in {SubSeq(DataPacket, 1, n) : n \in ParseLengths}
            \cup {DataPacket, DataPacket \o <<0>>, DataPacket \o PollPacket}
            \cup {WithPowerVoltage(p, v) : p \in 0..MaxOperand, v \in 0..MaxOperand}}

CodecInit ==
  /\ ManagerInit
  /\ cin \in ExtractCalls \cup DivideCalls \cup ParseCalls
  /\ cout = Pending

Done(value) == [done |-> TRUE, value |-> value]

managerVars == <<pc, stream, leaked, online, unavailable_logged, stop_event, serial_number,
                 task, created, stopState, stopTarget, ev, disciplined,
                 warnedSinceConnect, warnedSinceStart>>

\* lines 71-77 on a buffer
CallExtract ==
  /\ cin.op = "extract" /\ ~cout.done
  /\ cout' = Done(ExtractPacket(cin.buffer))
  /\ UNCHANGED <<cin, managerVars>>

CallSafeDivide ==
  /\ cin.op = "divide" /\ ~cout.done
  /\ cout' = Done(safe_divide(cin.numerator, cin.denominator))
  /\ UNCHANGED <<cin, managerVars>>

CallParseData ==
  /\ cin.op = "parse" /\ ~cout.done
  /\ cout' = Done(parse_data_packet(cin.data))
  /\ UNCHANGED <<cin, managerVars>>

CodecNext == CallExtract \/ CallSafeDivide \/ CallParseData

CodecSpec == CodecInit /\ [][CodecNext]_vars

(* ------------------------------ claims -------------------------------- *)

\* the steps in which the except clause of _run ran
IsFailure(e) ==
  \/ e.kind \in {"connect_fail", "read_timeout", "read_oserror", "drain_fail"}
  \/ (e.kind = "read" /\ e.listener = "raise_os")

\* C1: under disciplined use (start() only with no task running), online is
\* true only while the current background task is inside a session's read
\* loop; it is false before the first successful connect, during backoff and
\* whenever the task has exited.
C1_OnlineOnlyInSession ==
  disciplined => (online => (task # NoTask /\ pc[task] \in InSession /\ stream[task]))

\* C2: under disciplined use, right after stop() has returned the background
\* task has exited and online is false.
C2_StopReturnsOffline ==
  (disciplined /\ ev.kind \in {"stop_call", "stop_return"} /\ stopState = "returned")
    => ((task = NoTask \/ pc[task] \in Exited) /\ ~online)

\* C3: a task starts a connection attempt only when it first runs or when a
\* backoff wait has just elapsed: never straight from a session or from a
\* failed attempt.
C3_BackoffBeforeReconnect ==
  [][disciplined' =>
       \A t \in Tasks :
         (pc'[t] = "connecting" /\ pc[t] # "connecting") => pc[t] \in {"created", "sleeping"}]_vars

\* C4 as stated: a failure logs the warning exactly when none was logged
\* since the last successful connect or start(); a successful connect logs
\* recovery exactly when a warning was logged since the previous successful
\* connect; nothing else logs either message.
C4_WarnOncePerOutageOrStart ==
  [][disciplined' =>
       /\ IsFailure(ev') => (ev'.warned <=> ~warnedSinceStart)
       /\ ~IsFailure(ev') => ~ev'.warned
       /\ ev'.kind = "connect_ok" => (ev'.recovered <=> warnedSinceConnect)
       /\ ev'.kind # "connect_ok" => ~ev'.recovered]_vars

\* C4 amended: a failure logs the warning exactly when none was logged since
\* the last successful connect (or since construction); start() does not
\* begin a new outage.  Recovery as in C4.
C4_WarnOncePerOutage ==
  [][(IsFailure(ev') => (ev'.warned <=> ~warnedSinceConnect))
       /\ (~IsFailure(ev') => ~ev'.warned)
       /\ (ev'.kind = "connect_ok" => (ev'.recovered <=> warnedSinceConnect))
       /\ (ev'.kind # "connect_ok" => ~ev'.recovered)]_vars

\* a second start() inside an outage: its first failure logged nothing
C4_Witness ==
  /\ disciplined
  /\ ev.kind = "connect_fail" /\ ev.task = 2 /\ ~ev.warned
  /\ ~warnedSinceStart

\* C5: a read writes an acknowledgment iff a frame was extracted and has at
\* least 24 bytes; without an acknowledgment the session is not ended by
\* that read (next read, or exit when stop was requested).
C5_AckIffFrameAtLeast24 ==
  ev.kind = "read" =>
     /\ (ev.ack # NoAck) <=> (ev.frame # NoPacket /\ Len(ev.frame) >= 24)
     /\ (ev.ack = NoAck) => pc[ev.task] = (IF stop_event THEN "done" ELSE "reading")

\* C6: the listener is invoked (once) by a read iff the extracted frame has
\* exactly 86 bytes; no other step invokes it.
C6_ListenerIff86 ==
  /\ ev.kind = "read" => ((ev.listener # "none") <=> (ev.frame # NoPacket /\ Len(ev.frame) = 86))
  /\ ev.kind # "read" => ev.listener = "none"

\* a telemetry frame was read and handed over, and so was a truncated one
C6_Witness ==
  ev.kind = "read" /\ Len(ev.frame) = 86 /\ ev.listener = "ok"

C8_ExitsOnlyWhenStopped ==
  [][disciplined' =>
       \A t \in Tasks : (pc'[t] \in Exited /\ pc[t] \notin Exited) => stop_event]_vars

\* C9: when the listener raises, the session stays open (the acknowledgment
\* of the 86-byte frame is written and awaits its flush), no task ends with
\* an exception and stop() raises nothing.
C9_ListenerFailureIsolated ==
  /\ (ev.kind = "read" /\ ev.listener \in {"raise", "raise_os"}) => pc[ev.task] = "draining"
  /\ \A t \in Tasks : pc[t] # "failed"
  /\ stopState # "raised"

\* C10: under disciplined use no stream of an ended session is still open
\* and at most one stream is open.
C10_StreamsClosed ==
  disciplined => (leaked = 0 /\ OpenStreams <= 1)

\* C11 as stated: for every buffer made of noise, one frame, noise, the
\* extracted frame is that frame, whatever the noise and payload bytes.
C11_ExtractRoundTripAnyBytes ==
  (cin.op = "extract" /\ cout.done) => cout.value = cin.frame

NoStartMarker(bytes) ==
  \A i \in 1..(Len(bytes) - 1) : ~(bytes[i] = 104 /\ bytes[i + 1] = 0)

NoEndMarkerInPayload(frame) ==
  \A i \in 3..(Len(frame) - 1) : frame[i] # 22

\* C11 amended: the extracted frame is that frame provided the noise before
\* it holds no start marker (68 00) and its payload holds no byte 16; the
\* noise after it is arbitrary.
C11_ExtractRoundTrip ==
  (cin.op = "extract" /\ cout.done /\ NoStartMarker(cin.pre) /\ NoEndMarkerInPayload(cin.frame))
    => cout.value = cin.frame

\* a frame was extracted from between noise that holds marker bytes
C11_Witness ==
  /\ cin.op = "extract" /\ cout.done
  /\ cin.pre = <<22, 104>> /\ cin.post = <<104>> /\ Len(cin.frame) = 4
  /\ cout.value = cin.frame

\* C12: every acknowledgment written is 16 bytes: 68 00 10 68 10 50, then
\* bytes 20..23 of the frame that triggered it, then 00 00 00 00 78 16; the
\* triggering frame has at least 24 bytes.
C12_AckLayout ==
  ev.ack # NoAck =>
     /\ Len(ev.frame) >= 24
     /\ Len(ev.ack) = 16
     /\ SubSeq(ev.ack, 1, 6) = <<104, 0, 16, 104, 16, 80>>
     /\ \A i \in 0..3 : ev.ack[7 + i] = ev.frame[21 + i]
     /\ SubSeq(ev.ack, 11, 16) = <<0, 0, 0, 0, 120, 22>>

\* the shortest frame that is acknowledged: its bytes 20..23 are 01 02 03 16
C12_Witness ==
  /\ ev.kind = "read" /\ Len(ev.frame) = 24
  /\ SubSeq(ev.ack, 7, 10) = <<1, 2, 3, 22>>

\* C13: safe_divide never ends in a division fault and yields 0 when the
\* denominator is 0 or an operand is absent; the current of a channel of a
\* decoded frame is 0 when the AC voltage bytes of that channel are 0,
\* whatever its power bytes.
C13_CurrentZero ==
  /\ (cin.op = "divide" /\ cout.done) =>
        /\ cout.value # Fault
        /\ (cin.numerator = None \/ cin.denominator = None \/ cin.denominator = 0)
              => cout.value = Zero
  /\ (cin.op = "parse" /\ cout.done /\ Len(cin.data) >= 86) =>
        /\ cout.value.current_1 # Fault
        /\ cout.value.current_2 # Fault
        /\ (At(cin.data, 36) = 0 /\ At(cin.data, 37) = 0) => cout.value.current_1 = Zero
        /\ (At(cin.data, 68) = 0 /\ At(cin.data, 69) = 0) => cout.value.current_2 = Zero

\* a frame with power but no AC voltage was decoded: its currents are 0
C13_Witness ==
  /\ cin.op = "parse" /\ cout.done /\ Len(cin.data) = 86
  /\ At(cin.data, 29) # 0 /\ At(cin.data, 36) = 0 /\ At(cin.data, 37) = 0
  /\ cout.value.current_1 = Zero /\ cout.value.current_2 = Zero

\* the fields of a reading: section 3 and the offset table of section 4.1
TelemetryFields ==
  {"id_1", "id_2", "sw_version", "input_voltage_1", "input_voltage_2",
   "power_1", "power_2", "ac_voltage_1", "ac_voltage_2",
   "ac_frequency_1", "ac_frequency_2", "temperature_1", "temperature_2",
   "total_energy_1", "total_energy_2", "current_1", "current_2"}

\* C14: decoding less than 86 bytes yields the empty result; decoding 86
\* bytes or more yields a reading with every documented field.
C14_ParseLength ==
  (cin.op = "parse" /\ cout.done) =>
     IF Len(cin.data) < 86
       THEN DOMAIN cout.value = {}
       ELSE TelemetryFields \subseteq DOMAIN cout.value

\* exactly 86 bytes were decoded into a full reading
C14_Witness ==
  /\ cin.op = "parse" /\ cout.done /\ cin.data = DataPacket
  /\ DOMAIN cout.value = TelemetryFields
  /\ cout.value.id_1 = 49828832

\* the read yielded no frame, or a frame that is neither telemetry nor poll
Unrecognized(frame) == frame = NoPacket \/ Len(frame) \notin {86, 32}

\* C15 as stated: after a read that yields no frame or a frame of
\* unrecognized length the session is still open with online true, nothing
\* was emitted or logged, and the task is at its next read (or at the flush
\* of the acknowledgment that precedes it).
C15_AbsorbedAlways ==
  (ev.kind = "read" /\ disciplined /\ Unrecognized(ev.frame)) =>
     /\ ev.listener = "none" /\ ~ev.warned
     /\ pc[ev.task] \in InSession
     /\ online

\* C15 amended: such a read emits nothing, logs nothing and leads to no
\* backoff and no reconnection; with the stop signal clear the session stays
\* open with online true and the task is at its next read (after the flush of
\* the acknowledgment, for a frame of 24 bytes or more); with the stop signal
\* set a frame that needs no acknowledgment ends the task with online false.
C15_Absorbed ==
  (ev.kind = "read" /\ Unrecognized(ev.frame)) =>
     /\ ev.listener = "none" /\ ~ev.warned
     /\ pc[ev.task] \notin {"sleeping", "connecting", "failed"}
     /\ IF ev.frame # NoPacket /\ Len(ev.frame) >= 24
          THEN pc[ev.task] = "draining" /\ ev.ack = AckFor(ev.frame)
          ELSE /\ ev.ack = NoAck
               /\ pc[ev.task] = (IF stop_event THEN "done" ELSE "reading")
     /\ disciplined => (online <=> pc[ev.task] \in InSession)

\* a read with no start marker was absorbed: the task is at its next read
C15_Witness ==
  /\ ev.kind = "read" /\ ev.frame = NoPacket
  /\ ~stop_event /\ disciplined /\ online
  /\ pc[ev.task] = "reading" /\ stream[ev.task]

\* C16: once the stop signal is set no task moves into a connection attempt,
\* a read or a backoff wait: a task only leaves the operation it was suspended
\* in, to exit or, from a read, to the flush of that read's acknowledgment
\* (a task that start() had created when the signal is set again before its
\* first run exits on that run).
C16_NoNewWorkAfterStop ==
  [][\A t \in Tasks :
       (stop_event /\ pc'[t] # pc[t]) =>
          \/ pc'[t] \in Exited
          \/ pc[t] = "reading" /\ pc'[t] = "draining"
          \/ pc[t] = "none" /\ pc'[t] = "created"]_vars

\* stop was requested during a connection attempt: the connect resolved and
\* the task exited without reading
C16_Witness ==
  /\ stop_event /\ ev.kind = "connect_ok"
  /\ pc[ev.task] = "done" /\ ~online

(* ------------------------ scheduling assumptions ----------------------- *)

\* one resumption of task t: the event loop runs a ready task, and every
\* operation it is suspended in completes (a connect resolves, a read returns
\* or times out, a backoff wait elapses, a flush completes)
TaskStep(t) ==
  \/ TaskFirstRun(t)
  \/ SleepDone(t)
  \/ ConnectOk(t)
  \/ ConnectFail(t)
  \/ \E buffer \in ReadBuffers, lo \in ListenerOutcomes \cup {"none"} : ReadData(t, buffer, lo)
  \/ ReadEmpty(t)
  \/ ReadTimeout(t)
  \/ ReadOSError(t)
  \/ DrainOk(t)
  \/ DrainFail(t)

\* the manager under an event loop that resumes every ready coroutine
FairSpec ==
  /\ Spec
  /\ \A t \in Tasks : WF_vars(TaskStep(t))
  /\ WF_vars(StopReturn)

\* C17: a stop() that is waiting for the background task eventually returns
\* (normally, with no exception raised out of it).
C17_StopReturns ==
  (disciplined /\ stopState = "waiting") ~> (stopState = "returned" \/ ~disciplined)

\* a stop() that is waiting eventually completes, by returning or by raising
\* the exception the task ended with, and then the awaited task has finished
StopCompletes ==
  (disciplined /\ stopState = "waiting") ~>
     (\/ /\ stopState \in {"returned", "raised"}
         /\ stopTarget = NoTask \/ pc[stopTarget] \in Exited
      \/ ~disciplined)

\* C18: when a telemetry frame has been read, its acknowledgment is written,
\* and the task goes on to the flush and the next read, only if the listener
\* call for that frame has returned; the call is made in the step that read
\* the frame, so readings are delivered in the order of the reads.
C18_ListenerBeforeAck ==
  (ev.kind = "read" /\ Len(ev.frame) = 86) =>
     /\ ev.listener # "none"
     /\ (ev.ack # NoAck \/ pc[ev.task] \in InSession) => ev.listener = "ok"
     /\ ev.listener = "ok" => (ev.ack = AckFor(ev.frame) /\ pc[ev.task] = "draining")

\* a telemetry frame was delivered and then acknowledged
C18_Witness ==
  /\ ev.kind = "read" /\ ev.frame = DataPacket
  /\ ev.listener = "ok" /\ ev.ack = AckFor(DataPacket)
  /\ pc[ev.task] = "draining"

\* C19: a session ended by the peer closing the stream leaves the manager
\* offline; with stop not requested unavailability has been logged before
\* the next connection attempt, with stop requested the task has exited and
\* nothing was logged.
C19_PeerCloseIsOutage ==
  (ev.kind = "read_empty" /\ disciplined) =>
     /\ ~online
     /\ IF stop_event
          THEN pc[ev.task] = "done" /\ ~ev.warned
          ELSE unavailable_logged

\* the last stop() has returned and start() has not been called since
StoppedQuiet == stopState = "returned" /\ stopTarget = task

\* C20: as long as start() is only called with no background task running,
\* at most one task is alive and at most one session is open; a step taken
\* after stop() returned and before the next start() invokes no listener,
\* writes no acknowledgment and leaves serial_number alone; start() leaves
\* the stop signal clear with a new task, whose first run goes to connect.
C20_DisciplinedUse ==
  [][disciplined' =>
       /\ Cardinality({t \in Tasks : pc'[t] \in Live}) <= 1
       /\ Cardinality({t \in Tasks : pc'[t] \in InSession}) <= 1
       /\ (StoppedQuiet /\ ev'.kind # "start") =>
             /\ ev'.listener = "none" /\ ev'.ack = NoAck
             /\ serial_number' = serial_number
             /\ \A t \in Tasks : pc'[t] \notin Live
       /\ ev'.kind = "start" =>
             /\ ~stop_event' /\ task' # task
             /\ pc'[task'] = "created"
       /\ (ev'.kind = "first_run" /\ ~stop_event) => pc'[ev'.task] = "connecting"]_vars

\* a start() after a stop() that had returned: the new task has connected
C20_Witness ==
  /\ disciplined /\ ev.kind = "connect_ok" /\ ev.task = 2
  /\ stopState = "returned" /\ stopTarget = 1
  /\ ~stop_event /\ online /\ pc[2] = "reading" /\ pc[1] = "done"

====
